---- MODULE Spec2Model ----
(***************************************************************************)
(* A model of two programs of the Rust-book repository:                    *)
(*                                                                         *)
(*   Project/password-generator/src/main.rs   main, generate_password      *)
(*   guessing_game/src/main.rs                main (from the choice of the *)
(*                                            secret number on)            *)
(*                                                                         *)
(* A char is a one-character string, a String a sequence of chars.  An     *)
(* argument of the process is an OsString: a sequence whose elements are   *)
(* chars or BAD_BYTE, a byte that is not part of any UTF-8 encoding.       *)
(***************************************************************************)
EXTENDS Integers, Sequences, FiniteSets, TLC

VARIABLES
    \* ---- password-generator ----
    argv,             \* the process's arguments, program name first
    pc,               \* position of main
    password_length,  \* main's local, generate_password's parameter
    range,            \* the iterator 0..password_length inside generate_password
    password,         \* the String collect() is building, then main's local
    draws,            \* number of calls of gen_range so far
    stdout,           \* lines printed so far
    \* ---- a second, independent run of generate_password (SpecPair) ----
    pc2, range2, password2,
    \* ---- guessing_game ----
    gpc,              \* position of main
    secret_number,    \* main's local
    guess,            \* the parsed guess of the current iteration
    gout,             \* lines printed so far
    history           \* the outcome of parsing each line read so far

vars == <<argv, pc, password_length, range, password, draws, stdout,
          pc2, range2, password2,
          gpc, secret_number, guess, gout, history>>

pwVars   == <<argv, pc, password_length, range, password, draws, stdout>>
pairVars == <<pc2, range2, password2>>
gameVars == <<gpc, secret_number, guess, gout, history>>

(***************************************************************************)
(* Bounds of the model.                                                    *)
(***************************************************************************)
\* generate_password is explored for lengths 0..MaxLen.
MaxLen == 2
\* Longest first argument, in elements.
ArgMaxLen == 2
\* Width of usize in the model.  The build's usize has 64 bits; the model
\* keeps the type's checked arithmetic at a narrow width, so that arguments
\* of ArgMaxLen digits reach the overflow branch of the parser.
USIZE_BITS == 4
\* The two side-by-side runs of SpecPair are explored for lengths 0..PairMaxLen.
PairMaxLen == 1
\* Longest line typed at the guessing game, without its line end.
LineMaxLen == 3
\* Most lines the guessing game reads.
MaxLines == 2
\* Width of u32 in the model (32 in the build), narrowed like USIZE_BITS:
\* lines of LineMaxLen digits reach the overflow branch of the parser.
U32_BITS == 7

USIZE_MAX == 2^USIZE_BITS - 1
U32_MAX == 2^U32_BITS - 1

(***************************************************************************)
(* Characters.                                                             *)
(***************************************************************************)
\* The ASCII characters from ' ' (code 32) to '_' (code 95).
Ascii ==
    <<" ", "!", "\"", "#", "$", "%", "&", "'", "(", ")", "*", "+", ",", "-", ".", "/",
      "0", "1", "2", "3", "4", "5", "6", "7", "8", "9", ":", ";", "<", "=", ">", "?",
      "@", "A", "B", "C", "D", "E", "F", "G", "H", "I", "J", "K", "L", "M", "N", "O",
      "P", "Q", "R", "S", "T", "U", "V", "W", "X", "Y", "Z", "[", "\\", "]", "^", "_">>

\* (b as char) for a u8 b: the char whose code point is b.
U8AsChar(b) == Ascii[b - 31]

\* char::to_digit(10): the digit's value, or -1 for None.
ToDigit(c) ==
    IF \E d \in 0..9 : Ascii[d + 17] = c
    THEN CHOOSE d \in 0..9 : Ascii[d + 17] = c
    ELSE -1

\* A byte that occurs in no UTF-8 encoding (0xFF).
BAD_BYTE == "\\xFF"

(***************************************************************************)
(* str::parse for an unsigned integer type with maximum max                *)
(* (core::num, from_str_radix with radix 10).                              *)
(***************************************************************************)
Ok(v)  == [ok |-> TRUE,  val |-> v, err |-> ""]
Err(e) == [ok |-> FALSE, val |-> 0, err |-> e]

RECURSIVE Accumulate(_, _, _)
Accumulate(digits, acc, max) ==
    IF digits = <<>> THEN Ok(acc)
    ELSE LET d == ToDigit(Head(digits)) IN
         IF d = -1 THEN Err("InvalidDigit")
         ELSE IF acc * 10 > max THEN Err("PosOverflow")          \* checked_mul
         ELSE IF acc * 10 + d > max THEN Err("PosOverflow")      \* checked_add
         ELSE Accumulate(Tail(digits), acc * 10 + d, max)

ParseUnsigned(s, max) ==
    IF s = <<>> THEN Err("Empty")
    ELSE IF s = <<"+">> \/ s = <<"-">> THEN Err("InvalidDigit")
    ELSE IF Head(s) = "+" THEN Accumulate(Tail(s), 0, max)
    ELSE Accumulate(s, 0, max)     \* an unsigned type takes no "-" sign

(***************************************************************************)
(* password-generator: main                                                *)
(***************************************************************************)
None    == [some |-> FALSE, val |-> <<>>, panic |-> FALSE]
Some(v) == [some |-> TRUE,  val |-> v,    panic |-> FALSE]
Panic   == [some |-> FALSE, val |-> <<>>, panic |-> TRUE]

\* An OsString converts to a String iff it is valid Unicode.
IsUnicode(os) == \A i \in DOMAIN os : os[i] # BAD_BYTE

\* std::env::args().nth(n): next() is called on elements 0..n; each call
\* converts the element to a String and panics when it is not valid Unicode.
ArgsNth(args, n) ==
    LET seen == 1..(IF Len(args) < n + 1 THEN Len(args) ELSE n + 1) IN
    IF \E i \in seen : ~IsUnicode(args[i]) THEN Panic
    ELSE IF Len(args) >= n + 1 THEN Some(args[n + 1])
    ELSE None

\* "12".to_string()
DefaultString == <<"1", "2">>

\* unwrap_or(12)
DEFAULT_LENGTH == 12

\* Option::unwrap_or_else and Result::unwrap_or
UnwrapOrElse(opt, dflt) == IF opt.some THEN opt.val ELSE dflt
UnwrapOr(res, dflt) == IF res.ok THEN res.val ELSE dflt

\* let password_length = std::env::args().nth(1).unwrap_or_else(..)
\*                           .parse::<usize>().unwrap_or(12);
MainLet ==
    /\ pc = "main"
    /\ LET nth == ArgsNth(argv, 1) IN
       IF nth.panic
       THEN /\ pc' = "panicked"
            /\ UNCHANGED password_length
       ELSE /\ password_length' =
                   UnwrapOr(ParseUnsigned(UnwrapOrElse(nth, DefaultString), USIZE_MAX),
                            DEFAULT_LENGTH)
            /\ pc' = "call"
    /\ UNCHANGED <<argv, range, password, draws, stdout>>
    /\ UNCHANGED <<pairVars, gameVars>>

(***************************************************************************)
(* password-generator: generate_password                                   *)
(***************************************************************************)
\* A byte literal b'c': the code of the ASCII character c.
ByteOf(c) == CHOOSE b \in 32..95 : Ascii[b - 31] = c

\* b'A' and b'Z'
B_Digit0 == ByteOf("0")
B_A == ByteOf("A")
B_Z == ByteOf("Z")

\* 0..password_length
RangeNewInclusive(n) == [start |-> 0, end |-> n + 1]
RangeNew(n) == [start |-> 0, end |-> n]

\* Range<usize>::next
RangeStuck(r) ==
    IF r.start < r.end THEN [some |-> TRUE, next |-> r]
    ELSE [some |-> FALSE, next |-> r]
RangeNext(r) ==
    IF r.start < r.end
    THEN [some |-> TRUE, next |-> [r EXCEPT !.start = r.start + 1]]
    ELSE [some |-> FALSE, next |-> r]

\* The values gen_range(low..high) can return; none when the range is
\* empty, where gen_range panics.
GenRangeInclusive(low, high) == low..high
GenRange(low, high) == low..(high - 1)

\* String::push
PushSkippingA(s, c) == IF c = "A" THEN s ELSE Append(s, c)
Push(s, c) == Append(s, c)

\* let password = generate_password(password_length);   (the call)
\* The call is explored for lengths up to MaxLen.
Call ==
    /\ pc = "call"
    /\ password_length <= MaxLen
    /\ range' = RangeNew(password_length)
    /\ password' = <<>>
    /\ pc' = "collect"
    /\ UNCHANGED <<argv, password_length, draws, stdout>>
    /\ UNCHANGED <<pairVars, gameVars>>

\* One item of the iterator: next() yields a position, the closure draws a
\* byte b and collect() pushes `b as char`.
DrawByte(b) ==
    /\ pc = "collect"
    /\ RangeNext(range).some
    /\ range' = RangeNext(range).next
    /\ password' = Push(password, U8AsChar(b))
    /\ draws' = draws + 1
    /\ UNCHANGED <<argv, pc, password_length, stdout>>
    /\ UNCHANGED <<pairVars, gameVars>>

Draw ==
    IF GenRange(B_A, B_Z) = {}
    THEN /\ pc = "collect"
         /\ RangeNext(range).some
         /\ pc' = "gen_panicked"
         /\ UNCHANGED <<argv, password_length, range, password, draws, stdout>>
         /\ UNCHANGED <<pairVars, gameVars>>
    ELSE \E b \in GenRange(B_A, B_Z) : DrawByte(b)

\* next() yields None: collect() returns the String to main.
Return ==
    /\ pc = "collect"
    /\ ~RangeNext(range).some
    /\ pc' = "print"
    /\ UNCHANGED <<argv, password_length, range, password, draws, stdout>>
    /\ UNCHANGED <<pairVars, gameVars>>

\* println!("{password}");
PrintPassword ==
    /\ pc = "print"
    /\ stdout' = Append(stdout, password)
    /\ pc' = "exit"
    /\ UNCHANGED <<argv, password_length, range, password, draws>>
    /\ UNCHANGED <<pairVars, gameVars>>

(***************************************************************************)
(* The arguments the model starts main with.                               *)
(***************************************************************************)
ArgElems == {"0", "1", "2", "3", "+", "-", "a", " ", BAD_BYTE}

RECURSIVE SeqsUpTo(_, _)
SeqsUpTo(S, n) ==
    IF n = 0 THEN {<<>>}
    ELSE LET shorter == SeqsUpTo(S, n - 1) IN
         shorter \cup {Append(s, x) : s \in shorter, x \in S}

\* argv[0], as the shell passes it.
ProgramNames == {<<"p", "w">>}

Argvs ==
    {<<>>}
    \cup {<<p>> : p \in ProgramNames}
    \cup {<<p, a>> : p \in ProgramNames, a \in SeqsUpTo(ArgElems, ArgMaxLen)}
    \cup {<<<<"p", "w">>, <<"1">>, <<"2">>>>}

PairIdle == /\ pc2 = "idle" /\ range2 = RangeNew(0) /\ password2 = <<>>
GameIdle ==
    /\ gpc = "idle" /\ secret_number = 0 /\ guess = 0 /\ gout = <<>>
    /\ history = <<>>

Init ==
    /\ argv \in Argvs
    /\ pc = "main"
    /\ password_length = 0
    /\ range = RangeNew(0)
    /\ password = <<>>
    /\ draws = 0
    /\ stdout = <<>>
    /\ PairIdle
    /\ GameIdle

Next == MainLet \/ Call \/ Draw \/ Return \/ PrintPassword

Spec == Init /\ [][Next]_vars

\* main is one thread and runs every step it can take.
SpecFair == Spec /\ WF_vars(Next)

(***************************************************************************)
(* Two runs of generate_password with the same password_length, stepped in *)
(* any interleaving.  The first run is the one above; the second takes the *)
(* same steps on range2 and password2.                                     *)
(***************************************************************************)
Draw2 ==
    /\ pc2 = "collect"
    /\ RangeNext(range2).some
    /\ IF GenRange(B_A, B_Z) = {}
       THEN /\ pc2' = "gen_panicked"
            /\ UNCHANGED <<range2, password2>>
       ELSE \E b \in GenRange(B_A, B_Z) :
               /\ range2' = RangeNext(range2).next
               /\ password2' = Push(password2, U8AsChar(b))
               /\ pc2' = pc2
    /\ UNCHANGED <<pwVars, gameVars>>

Return2 ==
    /\ pc2 = "collect"
    /\ ~RangeNext(range2).some
    /\ pc2' = "print"
    /\ UNCHANGED <<range2, password2>>
    /\ UNCHANGED <<pwVars, gameVars>>

InitPair ==
    /\ argv = <<>>
    /\ password_length \in 0..PairMaxLen
    /\ pc = "collect"
    /\ range = RangeNew(password_length)
    /\ password = <<>>
    /\ draws = 0
    /\ stdout = <<>>
    /\ pc2 = "collect"
    /\ range2 = RangeNew(password_length)
    /\ password2 = <<>>
    /\ GameIdle

NextPair == Draw \/ Return \/ Draw2 \/ Return2

SpecPair == InitPair /\ [][NextPair]_vars

(***************************************************************************)
(* guessing_game: main, from the choice of the secret number.              *)
(***************************************************************************)
\* gen_range(1..=100)
SECRET_LOW == 1
SECRET_HIGH == 100

\* The values gen_range(low..=high) can return.
GenRangeClosed(low, high) == low..high

\* char::is_whitespace, for the characters of the model
IsWhitespace(c) == c \in {" ", "\n", "\t", "\r"}

\* str::trim
RECURSIVE TrimStart(_)
TrimStart(s) ==
    IF s # <<>> /\ IsWhitespace(Head(s)) THEN TrimStart(Tail(s)) ELSE s
RECURSIVE TrimEnd(_)
TrimEnd(s) ==
    IF s # <<>> /\ IsWhitespace(s[Len(s)])
    THEN TrimEnd(SubSeq(s, 1, Len(s) - 1)) ELSE s
Trim(s) == TrimEnd(TrimStart(s))

\* Display for u32: the decimal digits, no leading zero.
RECURSIVE FormatU32(_)
FormatU32(n) ==
    IF n < 10 THEN <<Ascii[n + 17]>>
    ELSE Append(FormatU32(n \div 10), Ascii[(n % 10) + 17])

\* Ord::cmp
CmpReversed(a, b) == IF a < b THEN "Greater" ELSE IF a > b THEN "Less" ELSE "Equal"
Cmp(a, b) == IF a < b THEN "Less" ELSE IF a > b THEN "Greater" ELSE "Equal"

\* The lines the program prints; a line is a sequence of pieces.
PromptLine == <<"Please input your guess.">>
EchoLine(n) == <<"You guess : ">> \o FormatU32(n)
TooSmallLine == <<"Too small">>
TooBigLine == <<"Too big">>
YouWinLine == <<"You Win">>

\* What read_line can do: append a line with its line end to the buffer,
\* append nothing at the end of the input, or fail.
LineElems == {"2", "+", " "}
ReadResults ==
    {[ok |-> TRUE, text |-> Append(l, "\n")] : l \in SeqsUpTo(LineElems, LineMaxLen)}
    \cup {[ok |-> TRUE, text |-> <<>>]}
    \cup {[ok |-> FALSE, text |-> <<>>]}

\* let secret_number = rand::thread_rng().gen_range(1..=100);
ChooseSecret ==
    /\ gpc = "start"
    /\ secret_number' \in GenRangeClosed(SECRET_LOW, SECRET_HIGH)
    /\ gpc' = "loop"
    /\ UNCHANGED <<guess, gout, history>>
    /\ UNCHANGED <<pwVars, pairVars>>

\* The loop body up to the parse: the prompt, read_line into a new String
\* (expect panics when it fails), trim and parse.  A line that does not
\* parse goes on to the next iteration.  At most MaxLines lines are read.
ReadGuess ==
    /\ gpc = "loop"
    /\ Len(history) < MaxLines
    /\ gout' = Append(gout, PromptLine)
    /\ \E r \in ReadResults :
          IF ~r.ok
          THEN /\ gpc' = "panicked"
               /\ UNCHANGED <<guess, history>>
          ELSE LET parsed == ParseUnsigned(Trim(<<>> \o r.text), U32_MAX) IN
               /\ history' = Append(history, parsed)
               /\ IF parsed.ok
                  THEN gpc' = "compare" /\ guess' = parsed.val
                  ELSE gpc' = "loop" /\ guess' = guess
    /\ UNCHANGED secret_number
    /\ UNCHANGED <<pwVars, pairVars>>

\* The rest of the loop body: the echo and the match on cmp.
Compare ==
    /\ gpc = "compare"
    /\ LET ord == Cmp(guess, secret_number) IN
       /\ gout' = gout \o <<EchoLine(guess),
                             IF ord = "Less" THEN TooSmallLine
                             ELSE IF ord = "Greater" THEN TooBigLine
                             ELSE YouWinLine>>
       /\ gpc' = IF ord = "Equal" THEN "done" ELSE "loop"
    /\ UNCHANGED <<secret_number, guess, history>>
    /\ UNCHANGED <<pwVars, pairVars>>

InitGame ==
    /\ argv = <<>>
    /\ pc = "idle"
    /\ password_length = 0
    /\ range = RangeNew(0)
    /\ password = <<>>
    /\ draws = 0
    /\ stdout = <<>>
    /\ PairIdle
    /\ gpc = "start"
    /\ secret_number = 0
    /\ guess = 0
    /\ gout = <<>>
    /\ history = <<>>

NextGame == ChooseSecret \/ ReadGuess \/ Compare

SpecGame == InitGame /\ [][NextGame]_vars

(***************************************************************************)
(* Notions the properties are stated in, defined without the program's     *)
(* operators.                                                              *)
(***************************************************************************)
UppercaseLetters ==
    {"A", "B", "C", "D", "E", "F", "G", "H", "I", "J", "K", "L", "M",
     "N", "O", "P", "Q", "R", "S", "T", "U", "V", "W", "X", "Y", "Z"}
LettersAToY == UppercaseLetters \ {"Z"}

DigitValue(c) ==
    CASE c = "0" -> 0 [] c = "1" -> 1 [] c = "2" -> 2 [] c = "3" -> 3
      [] c = "4" -> 4 [] c = "5" -> 5 [] c = "6" -> 6 [] c = "7" -> 7
      [] c = "8" -> 8 [] c = "9" -> 9
DecimalDigits == {"0", "1", "2", "3", "4", "5", "6", "7", "8", "9"}

RECURSIVE DecimalValue(_)
DecimalValue(ds) ==
    IF ds = <<>> THEN 0
    ELSE DecimalValue(SubSeq(ds, 1, Len(ds) - 1)) * 10 + DigitValue(ds[Len(ds)])

\* The digits of a decimal literal: the text without an optional leading "+".
Unsigned(s) == IF s # <<>> /\ s[1] = "+" THEN Tail(s) ELSE s

\* s is the decimal notation of a non-negative integer that the type with
\* maximum max holds.
DenotesUnsigned(s, max) ==
    /\ Unsigned(s) # <<>>
    /\ \A i \in DOMAIN Unsigned(s) : Unsigned(s)[i] \in DecimalDigits
    /\ DecimalValue(Unsigned(s)) <= max

HasFirstArgument == Len(argv) >= 2

\* generate_password has been called and has returned.
Returned == pc \in {"print", "exit"}

(***************************************************************************)
(* Properties of password-generator.                                       *)
(***************************************************************************)

\* C1: generate_password(n) returns a string of exactly n characters: while
\* it collects, one character has been appended for each position passed,
\* and the returned string has length password_length.
C1_ExactLength ==
    /\ pc = "collect" =>
          /\ range.end = password_length
          /\ range.start <= range.end
          /\ Len(password) = range.start
    /\ Returned => Len(password) = password_length
    /\ pc = "exit" => stdout = <<password>> /\ Len(stdout[1]) = password_length

C1_Witness == pc = "exit" /\ password_length = 2 /\ Len(password) = 2

\* C2: every character of the partial or finished output is an uppercase
\* ASCII letter.
C2_OnlyUppercaseLetters ==
    /\ \A i \in DOMAIN password : password[i] \in UppercaseLetters
    /\ \A l \in DOMAIN stdout : \A i \in DOMAIN stdout[l] :
          stdout[l][i] \in UppercaseLetters

C2_Witness ==
    pc = "collect" /\ password = <<"Y", "A">>

\* C3: once main has computed password_length, it is the parsed value of the
\* first argument when that argument is present and denotes a non-negative
\* integer (of the size of usize), and 12 in every other case; no argument
\* makes main fail.
C3_DefaultOnBadArgument ==
    pc # "main" =>
        /\ pc # "panicked"
        /\ password_length =
              IF HasFirstArgument /\ DenotesUnsigned(argv[2], USIZE_MAX)
              THEN DecimalValue(Unsigned(argv[2]))
              ELSE 12

\* The part of C3 the program keeps: when the program name and the first
\* argument are valid Unicode, the length is the parsed value or 12; when
\* one of them is not, main panics.
C3_DefaultOnUnicodeArgument ==
    pc # "main" =>
        IF \E i \in 1..Len(argv) : i <= 2 /\ BAD_BYTE \in {argv[i][k] : k \in DOMAIN argv[i]}
        THEN pc = "panicked"
        ELSE /\ pc # "panicked"
             /\ password_length =
                   IF HasFirstArgument /\ DenotesUnsigned(argv[2], USIZE_MAX)
                   THEN DecimalValue(Unsigned(argv[2]))
                   ELSE 12

\* C4: generate_password(0) draws nothing and returns the empty string, and
\* it does not fail.
C4_ZeroLength ==
    password_length = 0 =>
        /\ pc # "gen_panicked"
        /\ draws = 0
        /\ Returned => password = <<>>
        /\ pc = "exit" => stdout = <<<<>>>>

C4_Witness ==
    pc = "exit" /\ argv = <<<<"p", "w">>, <<"0">>>> /\ password = <<>> /\ draws = 0

C9_ExactlyAToY ==
    /\ \A i \in DOMAIN password : password[i] \in LettersAToY
    /\ (pc = "collect" /\ Len(password) < password_length) =>
          \A c \in LettersAToY :
              ENABLED (\E b \in GenRange(B_A, B_Z) :
                          /\ DrawByte(b)
                          /\ password' = Append(password, c))

C9_Witness == Returned /\ password = <<"A", "Y">>

(***************************************************************************)
(* Properties of two runs of generate_password.                            *)
(***************************************************************************)

\* C7: two runs with the same password_length return strings of the same
\* length, whatever each of them drew.  (That the contents may differ is
\* C7_Witness: a state where both have returned and the strings differ.)
C7_SameShape ==
    (pc = "print" /\ pc2 = "print") => Len(password) = Len(password2)

C7_Witness ==
    /\ pc = "print" /\ pc2 = "print"
    /\ password_length >= 1
    /\ Len(password) = Len(password2)
    /\ password # password2

(***************************************************************************)
(* Properties of guessing_game.                                            *)
(***************************************************************************)
\* Some line read so far parsed to the secret number.
Matched == \E i \in DOMAIN history : history[i].ok /\ history[i].val = secret_number

\* The feedback a parsed line gets.
Feedback(n) ==
    IF n < secret_number THEN TooSmallLine
    ELSE IF n > secret_number THEN TooBigLine
    ELSE YouWinLine

\* What the lines read so far make the program print, echo lines left out:
\* a prompt for every line, then the feedback if the line parsed.
RECURSIVE ExpectedOutput(_)
ExpectedOutput(h) ==
    IF h = <<>> THEN <<>>
    ELSE ExpectedOutput(SubSeq(h, 1, Len(h) - 1))
         \o <<PromptLine>>
         \o (IF h[Len(h)].ok THEN <<Feedback(h[Len(h)].val)>> ELSE <<>>)

IsEcho(line) == line[1] = "You guess : "
WithoutEcho(out) == SelectSeq(out, LAMBDA line : ~IsEcho(line))
Wins(out) == Len(SelectSeq(out, LAMBDA line : line = YouWinLine))

\* C10: the secret number is in 1..=100 and never changes once chosen; at
\* the top of the loop and after it, the loop has ended iff a line read
\* parsed to the secret number; the output is a prompt per line read
\* followed, for a line that parsed, by its echo and "Too small", "Too big"
\* or "You Win", and by nothing for a line that did not parse; "You Win" is
\* printed once, last, exactly when the loop has ended.
C10_GuessingLoop ==
    /\ [](gpc # "start" => secret_number \in 1..100)
    /\ [][gpc # "start" => secret_number' = secret_number]_vars
    /\ [](gpc \in {"loop", "done"} =>
            /\ (gpc = "done") <=> Matched
            /\ WithoutEcho(gout) = ExpectedOutput(history)
            /\ Len(gout) = Len(ExpectedOutput(history))
                              + Cardinality({i \in DOMAIN history : history[i].ok})
            /\ Wins(gout) = IF gpc = "done" THEN 1 ELSE 0
            /\ gpc = "done" => gout[Len(gout)] = YouWinLine)
    /\ [][gpc = "done" => gpc' = "done" /\ gout' = gout]_vars

C10_Witness ==
    /\ gpc = "done"
    /\ Len(history) = 2
    /\ ~history[1].ok
    /\ gout = <<PromptLine, PromptLine, <<"You guess : ", "2", "2">>, YouWinLine>>

====
